---- MODULE Spec2Model ----
\* Model of packages/wdio-browserstack-service/src/Percy/Percy.ts: one Percy
\* instance, its caller (start / stop / healthcheck calls) and the events of
\* the Node event loop that resume them (promise resolutions, timers, the
\* 'close' events of the child processes).  Each action is one run-to-
\* completion turn of the event loop: the synchronous code between two awaits.
EXTENDS Naturals, Sequences, FiniteSets

\* ---------------------------------------------------------------- bounds
\* calls (start, stop, healthcheck) the caller makes in one run
MaxCalls == 3
\* health requests one start() call issues
MaxPolls == 2

\* ---------------------------------------------------------------- values
\* JavaScript null / undefined, and the state of a promise not yet settled
NULL == "null"
UNDEF == "undefined"
PENDING == "pending"

\* JavaScript truthiness of the values the model uses (!x, if (x), Boolean(x))
Truthy(v) == v \notin {NULL, UNDEF, "false", ""}

\* path.join(os.tmpdir(), 'percy.json')
ConfigPath == "/tmp/percy.json"

\* what PercyBinary.getBinaryPath may resolve to
BinaryPaths == {"/bin/percy"}

\* options.app: falsy (false) or the app under test
AppOptions == {"false", "bs://app"}

\* options.percy with options.percyCaptureMode
PercyModeOptions == { [percy |-> FALSE, percyCaptureMode |-> "auto"],
                      [percy |-> TRUE,  percyCaptureMode |-> UNDEF] }

\* options.percyOptions: not given, or an object as its properties in
\* insertion order, <<key, value>>
PercyOptionsInputs ==
    { [given |-> FALSE, props |-> <<>>],
      [given |-> TRUE,  props |-> << <<"snapshot", "s1">> >>],
      [given |-> TRUE,  props |-> << <<"version", "1">>, <<"snapshot", "s1">> >>] }

\* what the token request may do: fail (in transport, or with a body that
\* does not parse: nodeRequest rejects), or answer with a document (whose token
\* may be missing)
FetchResponses ==
    { [kind |-> "error", token |-> UNDEF, success |-> FALSE, percy_capture_mode |-> UNDEF],
      [kind |-> "ok", token |-> "t1", success |-> TRUE,  percy_capture_mode |-> "auto"],
      [kind |-> "ok", token |-> "t2", success |-> FALSE, percy_capture_mode |-> "manual"],
      [kind |-> "ok", token |-> UNDEF, success |-> FALSE, percy_capture_mode |-> UNDEF] }

NoFetch == [kind |-> "none", token |-> UNDEF, success |-> FALSE, percy_capture_mode |-> UNDEF]

\* what the health request may do: fail (request error, rejected promise),
\* resolve with nothing, resolve with a document that has no build, or resolve
\* with a document carrying build.id
HealthResponses ==
    { [kind |-> "error",   id |-> UNDEF],
      [kind |-> "empty",   id |-> UNDEF],
      [kind |-> "nobuild", id |-> UNDEF],
      [kind |-> "ok",      id |-> "b7"],
      [kind |-> "ok",      id |-> "b8"] }

NoHealth == [kind |-> "none", id |-> UNDEF]

\* exit codes of the exec:stop process
ExitCodes == {"0", "1"}

VARIABLES
    options,            \* this._options (app, percy, percyCaptureMode, percyOptions)
    isApp,              \* this._isApp
    binaryPath,         \* this._binaryPath
    proc,               \* this._proc: the handle of the child start() spawned last
    procLive,           \* that child has not fired 'close' yet
    orphans,            \* children of earlier start() calls that have not closed
    stopProc,           \* the child stop() spawned last (code: its exit code,
                        \* once it has closed)
    isProcessRunning,   \* this.isProcessRunning
    percyCaptureMode,   \* this.percyCaptureMode
    buildId,            \* this.buildId
    percyAutoEnabled,   \* this.percyAutoEnabled
    percy,              \* this.percy
    configFile,         \* <tmp>/percy.json: whether it exists, and its text
    pbCalls,            \* calls of PercyBinary.getBinaryPath so far
    spc,                \* where the start() call stands
    st,                 \* the current (or last) start() call: its locals
                        \* (binary, token, configPath, ret), what happened in
                        \* it (fetch: the token response, poInput: the
                        \* percyOptions createPercyConfig was entered with,
                        \* writeErr: the writeFile outcome, polls, spawned)
                        \* and what held
                        \* when it returned (exitClosed, exitRunning)
    tpc,                \* where the stop() call stands
    stopRet,            \* what the last stop() resolved with
    hpc,                \* where the caller's healthcheck() call stands
    lastHc,             \* the last healthcheck() that returned: response,
                        \* result; lastOkId: the build id of the last
                        \* successful health response so far
    lastFlagEvent,      \* the most recent of: a spawn by start, a close event
    calls               \* calls the caller has made so far

vars == <<options, isApp, binaryPath, proc, procLive, orphans, stopProc,
          isProcessRunning, percyCaptureMode, buildId, percyAutoEnabled, percy,
          configFile, pbCalls, spc, st, tpc, stopRet, hpc, lastHc, lastFlagEvent,
          calls>>

session == <<percyCaptureMode, percyAutoEnabled, percy>>
procState == <<proc, procLive, orphans, isProcessRunning, lastFlagEvent>>
stopState == <<tpc, stopRet, stopProc>>

\* ---------------------------------------------------------------- helpers
HasTruthyVersion(po) == \E i \in 1..Len(po) : po[i][1] = "version" /\ Truthy(po[i][2])
HasVersionKey(po) == \E i \in 1..Len(po) : po[i][1] = "version"

\* a default that overwrites the version the user gave
DefaultVersionOverwrites(po) ==
    IF HasVersionKey(po)
    THEN [i \in 1..Len(po) |-> IF po[i][1] = "version" THEN <<"version", "2">> ELSE po[i]]
    ELSE Append(po, <<"version", "2">>)

\* if (!percyOptions.version) percyOptions.version = '2'
DefaultVersion(po) ==
    IF HasTruthyVersion(po) THEN po
    ELSE IF HasVersionKey(po)
         THEN [i \in 1..Len(po) |-> IF po[i][1] = "version" THEN <<"version", "2">> ELSE po[i]]
         ELSE Append(po, <<"version", "2">>)

\* JSON.stringify of an object: its properties in order, key then value,
\* a property whose value is undefined left out
RECURSIVE Stringify(_)
Stringify(po) ==
    IF po = <<>> THEN <<>>
    ELSE (IF po[1][2] = UNDEF THEN <<>> ELSE <<po[1][1], po[1][2]>>) \o Stringify(Tail(po))

\* a resolve under which the last call wins
ResolveLastWins(p, v) == v

\* JSON.parse of a text Stringify wrote: the properties, in order
RECURSIVE Parse(_)
Parse(t) ==
    IF Len(t) < 2 THEN <<>>
    ELSE << <<t[1], t[2]>> >> \o Parse(SubSeq(t, 3, Len(t)))

\* resolve(v) on a promise: the first call settles it, later calls do nothing
Resolve(p, v) == IF p = PENDING THEN v ELSE p

\* the fs.writeFile callback of createPercyConfig: what the promise settles to
WriteCallbackResult(err) ==
    LET p1 == IF err THEN Resolve(PENDING, NULL) ELSE PENDING
    IN  Resolve(p1, ConfigPath)

\* a healthcheck() that forgets the build id when the request fails
HealthcheckResetsOnFailure(resp, bid) ==
    CASE resp.kind = "error"   -> [ret |-> "false", buildId |-> NULL]
      [] resp.kind = "empty"   -> [ret |-> UNDEF, buildId |-> bid]
      [] resp.kind = "nobuild" -> [ret |-> "false", buildId |-> bid]
      [] OTHER                 -> [ret |-> "true", buildId |-> resp.id]

\* a healthcheck() that reports success without recording the build id
HealthcheckNoRecord(resp, bid) ==
    [ret |-> IF resp.kind = "ok" THEN "true" ELSE "false", buildId |-> bid]

\* the body of healthcheck() once nodeRequest has settled with resp:
\* the returned value and the buildId it leaves
Healthcheck(resp, bid) ==
    CASE resp.kind = "error"   -> [ret |-> "false", buildId |-> bid]
      [] resp.kind = "empty"   -> [ret |-> UNDEF, buildId |-> bid]
      [] resp.kind = "nobuild" -> [ret |-> "false", buildId |-> bid]
      [] OTHER                 -> [ret |-> "true", buildId |-> resp.id]

\* a fetchPercyToken() that takes the vendor's success for the auto-enablement
\* flag whatever the user's percy option
FetchPercyTokenAutoAlways(r) ==
    IF r.kind = "ok"
    THEN [token |-> r.token, percyAutoEnabled |-> r.success,
          percyCaptureMode |-> r.percy_capture_mode, percy |-> r.success]
    ELSE [token |-> NULL, percyAutoEnabled |-> percyAutoEnabled,
          percyCaptureMode |-> percyCaptureMode, percy |-> percy]

\* the body of fetchPercyToken() once nodeRequest has settled with r
FetchPercyToken(r) ==
    IF r.kind = "ok"
    THEN [token |-> r.token,
          percyAutoEnabled |-> IF ~options.percy /\ r.success THEN r.success
                               ELSE percyAutoEnabled,
          percyCaptureMode |-> r.percy_capture_mode,
          percy |-> r.success]
    ELSE [token |-> NULL,
          percyAutoEnabled |-> percyAutoEnabled,
          percyCaptureMode |-> percyCaptureMode,
          percy |-> percy]

\* commandArgs without the app prefix
CommandArgsNoApp(cfg) ==
    <<"exec:start">> \o (IF Truthy(cfg) THEN <<"-c", cfg>> ELSE <<>>)

\* commandArgs of start()
CommandArgs(cfg) ==
    << IF isApp THEN "app:exec:start" ELSE "exec:start" >>
        \o (IF Truthy(cfg) THEN <<"-c", cfg>> ELSE <<>>)

\* no child yet
NoProc == [binary |-> NULL, args |-> <<>>, token |-> UNDEF, code |-> UNDEF]

\* children spawned by start() that have not closed
LiveStartProcs == (IF procLive THEN 1 ELSE 0) + orphans

NewCall ==
    [binary |-> NULL, token |-> "none", configPath |-> "none", fetch |-> NoFetch,
     poInput |-> <<>>, writeErr |-> "none", polls |-> 0, spawned |-> FALSE,
     exitClosed |-> FALSE, exitRunning |-> FALSE, ret |-> "none"]

\* ---------------------------------------------------------------- Init
Init ==
    /\ \E a \in AppOptions, m \in PercyModeOptions, po \in PercyOptionsInputs :
          options = [app |-> a, percy |-> m.percy,
                     percyCaptureMode |-> m.percyCaptureMode, percyOptions |-> po]
    /\ isApp = Truthy(options.app)
    /\ binaryPath = NULL
    /\ proc = NoProc
    /\ procLive = FALSE
    /\ orphans = 0
    /\ stopProc = NoProc
    /\ isProcessRunning = FALSE
    /\ percyCaptureMode = options.percyCaptureMode
    /\ buildId = NULL
    /\ percyAutoEnabled = FALSE
    /\ percy = options.percy
    /\ configFile = [exists |-> FALSE, text |-> <<>>]
    /\ pbCalls = 0
    /\ spc = "idle"
    /\ st = NewCall
    /\ tpc = "idle"
    /\ stopRet = "none"
    /\ hpc = "idle"
    /\ lastHc = [by |-> "none", resp |-> NoHealth, ret |-> "none",
                 before |-> NULL, after |-> NULL, procLive |-> FALSE,
                 lastOkId |-> NULL]
    /\ lastFlagEvent = "none"
    /\ calls = 0

\* ---------------------------------------------------------------- start()
\* `if (!token) return false`: start() returns without spawning
ReturnFalse(s, cfg) ==
    /\ st' = [s EXCEPT !.configPath = cfg, !.ret = "false"]
    /\ spc' = "done"
    /\ UNCHANGED procState

\* a start() that spawns and polls without marking the process running
SpawnAndPollNoFlag(s, cfg) ==
    /\ proc' = [binary |-> s.binary, args |-> CommandArgs(cfg), token |-> s.token,
                code |-> UNDEF]
    /\ procLive' = TRUE
    /\ orphans' = LiveStartProcs
    /\ isProcessRunning' = isProcessRunning
    /\ lastFlagEvent' = "spawn"
    /\ st' = [s EXCEPT !.configPath = cfg, !.spawned = TRUE, !.polls = 1]
    /\ spc' = "health"

\* start() from commandArgs to the first await of the polling loop: the spawn,
\* the running flag, the close handler's registration, the first health
\* request.  The child this._proc referred to, if still alive, lives on
\* without a handle.
SpawnAndPoll(s, cfg) ==
    /\ proc' = [binary |-> s.binary, args |-> CommandArgs(cfg), token |-> s.token,
                code |-> UNDEF]
    /\ procLive' = TRUE
    /\ orphans' = LiveStartProcs
    /\ isProcessRunning' = TRUE
    /\ lastFlagEvent' = "spawn"
    /\ st' = [s EXCEPT !.configPath = cfg, !.spawned = TRUE, !.polls = 1]
    /\ spc' = "health"

\* a start() that does not test the token
AfterConfigNoTokenTest(s, cfg) == SpawnAndPoll(s, cfg)

\* start(), from the resumption after `await this.createPercyConfig()` on.
\* s is the call's locals so far, cfg what createPercyConfig resolved to.
AfterConfig(s, cfg) ==
    IF ~Truthy(s.token) THEN ReturnFalse(s, cfg) ELSE SpawnAndPoll(s, cfg)

\* the caller calls start(); getBinaryPath() either answers from the cache,
\* and start() runs on to the token request, or asks PercyBinary
StartCall ==
    /\ spc \in {"idle", "done"}
    /\ tpc \in {"idle", "done"}
    /\ hpc = "idle"
    /\ calls < MaxCalls
    /\ calls' = calls + 1
    /\ IF Truthy(binaryPath)
       THEN /\ st' = [NewCall EXCEPT !.binary = binaryPath]
            /\ spc' = "fetching"
            /\ UNCHANGED pbCalls
       ELSE /\ st' = NewCall
            /\ spc' = "resolvingBinary"
            /\ pbCalls' = pbCalls + 1
    /\ UNCHANGED <<options, isApp, binaryPath, procState, session, buildId,
                   configFile, stopState, hpc, lastHc>>

\* a getBinaryPath() that hands the path to start() without caching it
StartBinaryResolvedNoCache(p) ==
    /\ spc = "resolvingBinary"
    /\ st' = [st EXCEPT !.binary = p]
    /\ spc' = "fetching"
    /\ UNCHANGED <<options, isApp, binaryPath, procState, session, buildId,
                   configFile, pbCalls, stopState, hpc, lastHc, calls>>

\* PercyBinary.getBinaryPath resolves for start(): the path is cached and
\* start() runs on to the token request
StartBinaryResolved(p) ==
    /\ spc = "resolvingBinary"
    /\ binaryPath' = p
    /\ st' = [st EXCEPT !.binary = p]
    /\ spc' = "fetching"
    /\ UNCHANGED <<options, isApp, procState, session, buildId, configFile,
                   pbCalls, stopState, hpc, lastHc, calls>>

\* the token request settles with r: the rest of fetchPercyToken(), then
\* createPercyConfig() up to its fs.writeFile call or, with no percyOptions,
\* its return of null and the rest of start() up to the first health request
FetchTokenReturn(r) ==
    /\ spc = "fetching"
    /\ LET f == FetchPercyToken(r)
           s == [st EXCEPT !.token = f.token, !.fetch = r,
                           !.poInput = options.percyOptions.props]
       IN  /\ percyAutoEnabled' = f.percyAutoEnabled
           /\ percyCaptureMode' = f.percyCaptureMode
           /\ percy' = f.percy
           /\ IF ~options.percyOptions.given
              THEN /\ AfterConfig(s, NULL)
                   /\ UNCHANGED options
              ELSE /\ options' = [options EXCEPT !.percyOptions.props = DefaultVersion(@)]
                   /\ st' = s
                   /\ spc' = "writing"
                   /\ UNCHANGED procState
    /\ UNCHANGED <<isApp, binaryPath, buildId, configFile, pbCalls, stopState,
                   hpc, lastHc, calls>>

\* fs.writeFile calls back, with an error or not: the promise of
\* createPercyConfig() settles and start() runs on to the first health request
WriteFileCallback(err) ==
    /\ spc = "writing"
    /\ configFile' = IF err THEN configFile
                     ELSE [exists |-> TRUE, text |-> Stringify(options.percyOptions.props)]
    /\ AfterConfig([st EXCEPT !.writeErr = IF err THEN "err" ELSE "ok"],
                   WriteCallbackResult(err))
    /\ UNCHANGED <<options, isApp, binaryPath, session, buildId, pbCalls,
                   stopState, hpc, lastHc, calls>>

\* the health request of the polling loop settles with h: healthcheck()
\* returns, and start() returns true or goes to sleep
HealthRespond(h) ==
    /\ spc = "health"
    /\ LET r == Healthcheck(h, buildId)
           live == procLive
       IN  /\ buildId' = r.buildId
           /\ lastHc' = [by |-> "start", resp |-> h, ret |-> r.ret,
                         before |-> buildId, after |-> r.buildId, procLive |-> live,
                         lastOkId |-> IF h.kind = "ok" THEN h.id ELSE lastHc.lastOkId]
           /\ IF Truthy(r.ret)
              THEN /\ spc' = "done"
                   /\ st' = [st EXCEPT !.ret = "true", !.exitClosed = ~live,
                                       !.exitRunning = isProcessRunning]
              ELSE /\ spc' = "sleep"
                   /\ UNCHANGED st
    /\ UNCHANGED <<options, isApp, binaryPath, procState, session, configFile,
                   pbCalls, stopState, hpc, calls>>

\* a loop that polls on without looking at the running flag
PollAgainIgnoringFlag ==
    /\ spc = "sleep"
    /\ st.polls < MaxPolls
    /\ st' = [st EXCEPT !.polls = @ + 1]
    /\ spc' = "health"
    /\ UNCHANGED <<options, isApp, binaryPath, procState, session, buildId,
                   configFile, pbCalls, stopState, hpc, lastHc, calls>>

\* the sleep is over and the process is still marked running: next health request
PollAgain ==
    /\ spc = "sleep"
    /\ isProcessRunning
    /\ st.polls < MaxPolls
    /\ st' = [st EXCEPT !.polls = @ + 1]
    /\ spc' = "health"
    /\ UNCHANGED <<options, isApp, binaryPath, procState, session, buildId,
                   configFile, pbCalls, stopState, hpc, lastHc, calls>>

\* a loop that gives up after MaxPolls health requests, running or not
PollGiveUpOnTimeout ==
    /\ spc = "sleep"
    /\ ~isProcessRunning \/ st.polls = MaxPolls
    /\ st' = [st EXCEPT !.ret = "false", !.exitClosed = ~procLive,
                        !.exitRunning = isProcessRunning]
    /\ spc' = "done"
    /\ UNCHANGED <<options, isApp, binaryPath, procState, session, buildId,
                   configFile, pbCalls, stopState, hpc, lastHc, calls>>

\* the sleep is over and the running flag is false: start() returns false
PollGiveUp ==
    /\ spc = "sleep"
    /\ ~isProcessRunning
    /\ st' = [st EXCEPT !.ret = "false", !.exitClosed = ~procLive,
                        !.exitRunning = isProcessRunning]
    /\ spc' = "done"
    /\ UNCHANGED <<options, isApp, binaryPath, procState, session, buildId,
                   configFile, pbCalls, stopState, hpc, lastHc, calls>>

\* a close handler of start()'s child that leaves the flag alone
ProcCloseKeepsFlag ==
    /\ procLive
    /\ procLive' = FALSE
    /\ lastFlagEvent' = "close"
    /\ UNCHANGED <<options, isApp, binaryPath, proc, orphans, isProcessRunning,
                   session, buildId, configFile, pbCalls, spc, st, stopState, hpc,
                   lastHc, calls>>

\* the 'close' event of the child this._proc refers to
ProcClose ==
    /\ procLive
    /\ procLive' = FALSE
    /\ isProcessRunning' = FALSE
    /\ lastFlagEvent' = "close"
    /\ UNCHANGED <<options, isApp, binaryPath, proc, orphans, session, buildId,
                   configFile, pbCalls, spc, st, stopState, hpc, lastHc, calls>>

\* the 'close' event of a child of an earlier start() call: its handler, too,
\* writes the flag of the instance
OrphanClose ==
    /\ orphans > 0
    /\ orphans' = orphans - 1
    /\ isProcessRunning' = FALSE
    /\ lastFlagEvent' = "close"
    /\ UNCHANGED <<options, isApp, binaryPath, proc, procLive, session, buildId,
                   configFile, pbCalls, spc, st, stopState, hpc, lastHc, calls>>

\* ---------------------------------------------------------------- stop()
\* spawn(binaryPath, ['exec:stop'])
StopProc(p) == [binary |-> p, args |-> <<"exec:stop">>, token |-> UNDEF,
                code |-> UNDEF]

\* the caller calls stop(); with the path cached the exec:stop process is
\* spawned at once
StopCall ==
    /\ tpc \in {"idle", "done"}
    /\ hpc = "idle"
    /\ calls < MaxCalls
    /\ calls' = calls + 1
    /\ IF Truthy(binaryPath)
       THEN /\ stopProc' = StopProc(binaryPath)
            /\ tpc' = "waiting"
            /\ UNCHANGED pbCalls
       ELSE /\ tpc' = "resolvingBinary"
            /\ pbCalls' = pbCalls + 1
            /\ UNCHANGED stopProc
    /\ UNCHANGED <<options, isApp, binaryPath, procState, session, buildId,
                   configFile, spc, st, stopRet, hpc, lastHc>>

\* PercyBinary.getBinaryPath resolves for stop(): exec:stop is spawned
StopBinaryResolved(p) ==
    /\ tpc = "resolvingBinary"
    /\ binaryPath' = p
    /\ stopProc' = StopProc(p)
    /\ tpc' = "waiting"
    /\ UNCHANGED <<options, isApp, procState, session, buildId, configFile,
                   pbCalls, spc, st, stopRet, hpc, lastHc, calls>>

\* a close handler of exec:stop that leaves the flag alone
StopProcCloseKeepsFlag(code) ==
    /\ tpc = "waiting"
    /\ lastFlagEvent' = "close"
    /\ stopRet' = code
    /\ tpc' = "done"
    /\ stopProc' = [stopProc EXCEPT !.code = code]
    /\ UNCHANGED <<options, isApp, binaryPath, proc, procLive, orphans,
                   isProcessRunning, session, buildId, configFile, pbCalls, spc, st,
                   hpc, lastHc, calls>>

\* the 'close' event of the exec:stop process, with its exit code
StopProcClose(code) ==
    /\ tpc = "waiting"
    /\ isProcessRunning' = FALSE
    /\ lastFlagEvent' = "close"
    /\ stopRet' = code
    /\ tpc' = "done"
    /\ stopProc' = [stopProc EXCEPT !.code = code]
    /\ UNCHANGED <<options, isApp, binaryPath, proc, procLive, orphans,
                   session, buildId, configFile, pbCalls, spc, st, hpc, lastHc,
                   calls>>

\* ---------------------------------------------------------------- healthcheck()
\* the caller calls healthcheck() itself
HealthcheckCall ==
    /\ hpc = "idle"
    /\ spc \in {"idle", "done"}
    /\ tpc \in {"idle", "done"}
    /\ calls < MaxCalls
    /\ calls' = calls + 1
    /\ hpc' = "waiting"
    /\ UNCHANGED <<options, isApp, binaryPath, procState, session, buildId,
                   configFile, pbCalls, spc, st, stopState, lastHc>>

\* its health request settles with h
HealthcheckReturn(h) ==
    /\ hpc = "waiting"
    /\ LET r == Healthcheck(h, buildId)
       IN  /\ buildId' = r.buildId
           /\ lastHc' = [by |-> "caller", resp |-> h, ret |-> r.ret,
                         before |-> buildId, after |-> r.buildId,
                         procLive |-> procLive,
                         lastOkId |-> IF h.kind = "ok" THEN h.id ELSE lastHc.lastOkId]
    /\ hpc' = "idle"
    /\ UNCHANGED <<options, isApp, binaryPath, procState, session, configFile,
                   pbCalls, spc, st, stopState, calls>>

\* isRunning()
isRunning == isProcessRunning

\* ---------------------------------------------------------------- Spec
Next ==
    \/ StartCall
    \/ \E p \in BinaryPaths : StartBinaryResolved(p)
    \/ \E r \in FetchResponses : FetchTokenReturn(r)
    \/ \E err \in BOOLEAN : WriteFileCallback(err)
    \/ \E h \in HealthResponses : HealthRespond(h)
    \/ PollAgain
    \/ PollGiveUp
    \/ ProcClose
    \/ OrphanClose
    \/ StopCall
    \/ \E p \in BinaryPaths : StopBinaryResolved(p)
    \/ \E code \in ExitCodes : StopProcClose(code)
    \/ HealthcheckCall
    \/ \E h \in HealthResponses : HealthcheckReturn(h)

Spec == Init /\ [][Next]_vars

\* a caller that awaits each call before the next: stop() is called only when
\* no start() is in progress (StartCall and HealthcheckCall already wait for
\* the calls before them)
SeqStopCall == spc \in {"idle", "done"} /\ StopCall

NextSeq ==
    \/ StartCall
    \/ \E p \in BinaryPaths : StartBinaryResolved(p)
    \/ \E r \in FetchResponses : FetchTokenReturn(r)
    \/ \E err \in BOOLEAN : WriteFileCallback(err)
    \/ \E h \in HealthResponses : HealthRespond(h)
    \/ PollAgain
    \/ PollGiveUp
    \/ ProcClose
    \/ OrphanClose
    \/ SeqStopCall
    \/ \E p \in BinaryPaths : StopBinaryResolved(p)
    \/ \E code \in ExitCodes : StopProcClose(code)
    \/ HealthcheckCall
    \/ \E h \in HealthResponses : HealthcheckReturn(h)

SpecSeq == Init /\ [][NextSeq]_vars

\* ---------------------------------------------------------------- claims

\* C1: whatever the options, when fetchPercyToken yields null the start() call
\* spawns nothing: every step of the call from the token's arrival to its
\* return leaves _proc as it was, adds no live child, does not turn the
\* running flag on, and the call returns false.
C1_NullTokenNoSpawn ==
    [][ (spc \in {"fetching", "writing"} /\ st'.token = NULL)
        => /\ proc' = proc
           /\ LiveStartProcs' <= LiveStartProcs
           /\ (isProcessRunning' => isProcessRunning)
           /\ spc' \in {"writing", "done"}
           /\ (spc' = "done" => st'.ret = "false") ]_vars

\* a start() with percyOptions given has returned false on a null token
C1_Witness ==
    /\ spc = "done"
    /\ st.token = NULL
    /\ st.ret = "false"
    /\ options.percyOptions.given
    /\ ~st.spawned

\* C2: once start() has spawned and the child's close event has fired with no
\* health check having succeeded, the value start() returns is false.
C2_ClosedFirstReturnsFalse ==
    [][ (st.spawned /\ ~procLive /\ spc \in {"health", "sleep"} /\ spc' = "done")
        => st'.ret = "false" ]_vars

\* C3: start() returns true only if the health check succeeded while the
\* child had not yet fired its close event (exit wins the race).
C3_TrueOnlyBeforeClose ==
    (spc = "done" /\ st.ret = "true") => ~st.exitClosed

\* C4: when the health request of start() is answered successfully while the
\* spawned child is still running, start() returns true in that step and the
\* session buildId is the build id of that answer.
C4_HealthyReturnsTrueWithBuildId ==
    [][ (spc = "health" /\ spc' # "health" /\ lastHc'.resp.kind = "ok" /\ procLive)
        => /\ spc' = "done"
           /\ st'.ret = "true"
           /\ buildId' = lastHc'.resp.id ]_vars

\* a second start() has returned true on a live child and replaced the
\* build id of the first
C4_Witness ==
    /\ spc = "done"
    /\ st.ret = "true"
    /\ ~st.exitClosed
    /\ lastHc.by = "start"
    /\ lastHc.before = "b7"
    /\ buildId = "b8"

\* C5: at most one child spawned by start() is live (spawned, not yet closed).
C5_AtMostOneLiveChild == LiveStartProcs <= 1

\* C6: isRunning() is false before any spawn, true after a spawn by start()
\* as long as no close event (of a child of start() or of stop()) has fired
\* since, and false after such a close event until start() spawns again.
C6_IsRunningFollowsSpawnAndClose ==
    /\ (lastFlagEvent = "none" => ~isRunning)
    /\ (lastFlagEvent = "spawn" => isRunning)
    /\ (lastFlagEvent = "close" => ~isRunning)

\* stop() has resolved while the child of start() is still alive
C6_Witness ==
    /\ tpc = "done"
    /\ st.spawned
    /\ procLive
    /\ ~isRunning

\* C7: healthcheck() returns true and sets buildId to the answer's build id
\* when the endpoint answers, and returns false leaving buildId unchanged on
\* any failure (request error, missing or malformed answer).
C7_HealthcheckTrueOrFalse ==
    lastHc.by # "none"
    => IF lastHc.resp.kind = "ok"
       THEN lastHc.ret = "true" /\ lastHc.after = lastHc.resp.id
       ELSE lastHc.ret = "false" /\ lastHc.after = lastHc.before

\* C8: when percyOptions are given and the write fails, createPercyConfig
\* resolves to null, and start() goes on: with a token it spawns, with an
\* argument list that has no -c.
C8_WriteFailureMeansNoConfig ==
    st.writeErr = "err"
    => /\ st.configPath = NULL
       /\ Truthy(st.token)
          => /\ st.spawned
             /\ \A i \in 1..Len(proc.args) : proc.args[i] # "-c"

\* the write failed and start() spawned with the start argument alone
C8_Witness ==
    /\ st.writeErr = "err"
    /\ st.spawned
    /\ Len(proc.args) = 1

\* C9: the config-write step of start() (and the file it writes) happens only
\* after a non-null token has been obtained.
C9_ConfigWriteOnlyWithToken ==
    (spc = "writing" \/ st.writeErr # "none") => Truthy(st.token)

\* C10: a child spawned by start() gets app:exec:start when the instance was
\* built with an app and exec:start otherwise, followed by -c <configPath>
\* exactly when createPercyConfig resolved to a path, and PERCY_TOKEN is the
\* token of that call's token response; with { app: false, percyCaptureMode:
\* "auto" } and the response { token: "t1", success: true, percy_capture_mode:
\* "auto" } the first argument is exec:start, PERCY_TOKEN is t1 and
\* percyCaptureMode is "auto".
C10_SpawnArgsAndToken ==
    st.spawned
    => /\ proc.args = << IF Truthy(options.app) THEN "app:exec:start" ELSE "exec:start" >>
                        \o (IF st.configPath # NULL THEN <<"-c", st.configPath>> ELSE <<>>)
       /\ proc.token = st.fetch.token
       /\ (/\ options.app = "false"
           /\ options.percyCaptureMode = "auto"
           /\ st.fetch = [kind |-> "ok", token |-> "t1", success |-> TRUE,
                          percy_capture_mode |-> "auto"])
          => /\ proc.args[1] = "exec:start"
             /\ proc.token = "t1"
             /\ percyCaptureMode = "auto"

\* the scenario, with a config file: exec:start -c <path>, token t1
C10_Witness ==
    /\ st.spawned
    /\ options.app = "false"
    /\ options.percyCaptureMode = "auto"
    /\ st.fetch.token = "t1"
    /\ Len(proc.args) = 3

\* C11: when the token request is answered, fetchPercyToken sets
\* percyCaptureMode to the vendor's capture mode, turns percyAutoEnabled on
\* exactly when the user's percy option is off and the vendor reports success
\* (a flag already on stays on), and returns the answer's token; when the
\* request fails it returns null and leaves percyCaptureMode,
\* percyAutoEnabled and percy unchanged.
C11_FetchPercyTokenEffects ==
    [][ (spc = "fetching" /\ spc' # "fetching")
        => IF st'.fetch.kind = "ok"
           THEN /\ percyCaptureMode' = st'.fetch.percy_capture_mode
                /\ percyAutoEnabled' =
                      (percyAutoEnabled \/ (~options.percy /\ st'.fetch.success))
                /\ st'.token = st'.fetch.token
           ELSE /\ st'.token = NULL
                /\ percyCaptureMode' = percyCaptureMode
                /\ percyAutoEnabled' = percyAutoEnabled
                /\ percy' = percy ]_vars

\* a token request has failed after an earlier one had turned the flag on:
\* the session still holds what the earlier answer set
C11_Witness ==
    /\ st.fetch.kind = "error"
    /\ st.token = NULL
    /\ percyAutoEnabled
    /\ percyCaptureMode = "auto"
    /\ ~options.percy

\* C12: with no percyOptions createPercyConfig resolves to null and nothing is
\* written; with percyOptions that have no version the written document,
\* parsed, is the input followed by version "2", every other property as it
\* was; with percyOptions that carry a version it is the input itself.
C12_ConfigDocument ==
    /\ (st.configPath # "none" /\ ~options.percyOptions.given)
       => (st.configPath = NULL /\ ~configFile.exists /\ st.writeErr = "none")
    /\ st.writeErr = "ok"
       => /\ st.configPath = ConfigPath
          /\ configFile.exists
          /\ Parse(configFile.text) =
                IF \E i \in 1..Len(st.poInput) : st.poInput[i][1] = "version"
                THEN st.poInput
                ELSE st.poInput \o << <<"version", "2">> >>

\* a document was written for percyOptions given without a version
C12_Witness ==
    /\ st.writeErr = "ok"
    /\ st.poInput = << <<"snapshot", "s1">> >>
    /\ configFile.text = <<"snapshot", "s1", "version", "2">>

\* C13: once start() has spawned, it returns only from the polling loop:
\* false only after a sleep with the running flag false, true only on a
\* successful health check; there is no other exit (no timeout), so while the
\* flag stays true and no health check succeeds start() does not return.
C13_ReturnsFalseOnlyWhenNotRunning ==
    [][ (spc \in {"health", "sleep"} /\ spc' = "done")
        => IF st'.ret = "false"
           THEN spc = "sleep" /\ ~isProcessRunning /\ ~st'.exitRunning
           ELSE spc = "health" /\ st'.ret = "true" /\ lastHc'.ret = "true" ]_vars

\* start() has polled MaxPolls times and returned false with the flag off
C13_Witness ==
    /\ spc = "done"
    /\ st.spawned
    /\ st.polls = MaxPolls
    /\ st.ret = "false"
    /\ ~st.exitRunning

\* C14: the running flag is turned on only by start()'s spawn, which always
\* leaves it on; it is turned off only by a close handler (of a child of
\* start() or of stop()'s process), and each such handler leaves it off;
\* healthcheck(), isRunning(), fetchPercyToken() and createPercyConfig() leave
\* it as it was.
C14_RunningFlagWriters ==
    [][ LET spawnStep == ~st.spawned /\ st'.spawned
            closeStep == \/ procLive /\ ~procLive'
                         \/ orphans' < orphans
                         \/ tpc = "waiting" /\ tpc' = "done"
            healthStep == lastHc' # lastHc \/ hpc' # hpc
            tokenOrConfigStep == \/ spc = "fetching" /\ spc' \in {"writing", "done"}
                                 \/ spc = "writing" /\ spc' = "done"
        IN  /\ (~isProcessRunning /\ isProcessRunning') => spawnStep
            /\ spawnStep => isProcessRunning'
            /\ (isProcessRunning /\ ~isProcessRunning') => closeStep
            /\ closeStep => ~isProcessRunning'
            /\ (healthStep \/ tokenOrConfigStep) => isProcessRunning' = isProcessRunning
            /\ isRunning' = isProcessRunning' ]_vars

\* the child of start() and the process of stop() have both closed
C14_Witness ==
    /\ st.spawned
    /\ ~procLive
    /\ tpc = "done"
    /\ ~isProcessRunning
    /\ lastHc.by = "start"

\* C15: when the calls are made one after the other, PercyBinary is asked for
\* the path at most once, and every process start() or stop() has spawned was
\* given the cached path.
C15_BinaryPathResolvedOnce ==
    /\ pbCalls <= 1
    /\ (pbCalls = 0 => binaryPath = NULL)
    /\ (proc # NoProc => proc.binary = binaryPath /\ Truthy(binaryPath))
    /\ (stopProc # NoProc => stopProc.binary = binaryPath /\ Truthy(binaryPath))

\* three calls, a start() that spawned and a stop() among them, one request
\* to PercyBinary
C15_Witness ==
    /\ calls = MaxCalls
    /\ proc # NoProc
    /\ stopProc # NoProc
    /\ pbCalls = 1

\* C16: stop() spawns a process of its own with the one argument exec:stop
\* and resolves with that process's exit code; when its close event fires
\* while start() is polling, the running flag is cleared although start()'s
\* child has not closed, and from then on start() returns false at its next
\* flag test unless the health request in flight succeeds first.
C16_StopClearsFlagUnderPollingStart ==
    [][ /\ stopProc' # NoProc => stopProc'.args = <<"exec:stop">>
        /\ (tpc = "waiting" /\ tpc' = "done")
           => /\ stopRet' = stopProc'.code
              /\ stopRet' \in ExitCodes
              /\ ~isProcessRunning'
              /\ procLive' = procLive
              /\ proc' = proc
        /\ (spc = "sleep" /\ ~isProcessRunning /\ spc' # "sleep")
           => spc' = "done" /\ st'.ret = "false"
        /\ (spc = "health" /\ ~isProcessRunning /\ spc' # "health")
           => \/ spc' = "done" /\ st'.ret = "true" /\ lastHc'.ret = "true"
              \/ spc' = "sleep" ]_vars

\* start() has returned false because stop()'s process closed, its own child
\* still alive
C16_Witness ==
    /\ spc = "done"
    /\ st.spawned
    /\ st.ret = "false"
    /\ procLive
    /\ orphans = 0
    /\ tpc = "done"
    /\ stopRet = "1"

\* C17: whenever isRunning() is true the child start() spawned last has not
\* fired its close event.
C17_RunningImpliesLastChildLive ==
    isRunning => (proc # NoProc /\ procLive)

\* the flag is on with two children alive, the last one among them
C17_Witness ==
    /\ isRunning
    /\ procLive
    /\ orphans = 1

\* C18: buildId is null until the first successful health check and from then
\* on is the build id of the most recent successful health response; nothing
\* but a successful health check (not start() returning false, stop(),
\* fetchPercyToken() or a close event) changes it.
C18_BuildIdIsLastHealthyId ==
    /\ buildId = lastHc.lastOkId
    /\ (lastHc.by = "none" => buildId = NULL)

\* a build id outlives a failed health check, a start() that returned false
\* and a stop()
C18_Witness ==
    /\ buildId = "b7"
    /\ lastHc.resp.kind = "error"
    /\ spc = "done"
    /\ st.ret = "false"
    /\ tpc = "done"

====
